---- MODULE Spec2Model ----
(***************************************************************************)
(* A model of rust-wlc's handle layer (src/src/handle.rs) and pixel        *)
(* transfer (src/src/render.rs).                                           *)
(*                                                                         *)
(* The layer is a synchronous call-through binding.  Its only state is the *)
(* caller's handles; everything else lives on the native side.  The model  *)
(* records                                                                 *)
(*   ops   - the API operations the caller has invoked, in program order,  *)
(*   calls - the native (extern "C") calls the layer has issued, in order, *)
(*   ret   - what the last operation returned to the caller.               *)
(* The native library is the environment: with wlc running, what a native  *)
(* function returns is chosen by the environment; without it, the returns  *)
(* are those the repository's tests and doc comments record for dummy      *)
(* handles (handle.rs 370-381, 583-594, 873-926).                          *)
(***************************************************************************)
EXTENDS Integers, Sequences, FiniteSets, TLC

VARIABLES
    running,          \* is the wlc runtime active behind the handles
    overflow_checks,  \* build profile: are integer overflow checks compiled in
    code1, code2,     \* the u32 codes handed to WlcView::dummy / WlcOutput::dummy
    geo_w, geo_h,     \* geometry.size.w / .h of the pixel request (u32, as limbs)
    sched,            \* native side: where each output is in its render cycle
    userdata,         \* native side: the user-data pointer stored for each handle value
    ops,              \* API operations invoked so far
    calls,            \* native calls issued so far
    ret               \* result of the last operation

vars == <<running, overflow_checks, code1, code2, geo_w, geo_h, sched, userdata, ops, calls, ret>>

----------------------------------------------------------------------------
(* Bounds of the model. *)

\* largest handle value / dummy code the caller uses
MaxHandle == 2
\* longest sequence of view/text operations
MaxOps == 2
\* longest sequence of output operations
MaxOutputOps == 2
\* bytes of native memory in front of the terminating NUL of a C string
MaxCMem == 2
\* schedule_render calls in one trace
MaxRenderOps == 3
\* longest sequence of user-data operations
MaxUserDataOps == 3

Handles == 0 .. MaxHandle

NoRet == [op |-> "none"]

----------------------------------------------------------------------------
(* Handle types: tuple structs over one uintptr_t, field .0 *)

WlcView(n) == [ty |-> "WlcView", f0 |-> n]

WlcOutput(n) == [ty |-> "WlcOutput", f0 |-> n]

\* `code as uintptr_t`: zero-extension of a u32; uintptr_t is at least 32
\* bits wide on every target, so no bit of the code is dropped.
u32_as_uintptr(code) == code

WlcView_dummy(code) == WlcView(u32_as_uintptr(code))

WlcOutput_dummy(code) == WlcOutput(u32_as_uintptr(code))

WlcView_root == WlcView(0)

\* usize's Ord::cmp
usize_cmp(m, n) == IF m < n THEN "Less" ELSE IF m = n THEN "Equal" ELSE "Greater"

\* #[derive(PartialEq, Eq)]: field-wise equality of the one field
derive_eq(x, y) == x.f0 = y.f0

\* a derived ordering that compares the operands the wrong way round
derive_cmp_reversed(x, y) == usize_cmp(y.f0, x.f0)

\* #[derive(PartialOrd, Ord)]: lexicographic over the fields, here the one field
derive_cmp(x, y) == usize_cmp(x.f0, y.f0)

\* the comparison operators Rust derives from cmp
derive_lt(x, y) == derive_cmp(x, y) = "Less"

derive_gt(x, y) == derive_cmp(x, y) = "Greater"

\* a conversion that builds a fresh handle instead of carrying the value over
From_view_zeroed(view) == WlcOutput(0)

\* impl From<WlcView> for WlcOutput
From_view(view) == WlcOutput(view.f0)

\* impl From<WlcOutput> for WlcView
From_output(output) == WlcView(output.f0)

as_output(self) == From_view(self)

as_view(self) == From_output(self)

is_root(self) == self.f0 = 0

\* an is_window that takes every handle for a window
is_window_always(self) == TRUE

is_window(self) == self.f0 # 0

Views == {WlcView(n) : n \in Handles}

Outputs == {WlcOutput(n) : n \in Handles}

----------------------------------------------------------------------------
(* The native boundary: extern "C" calls, raw pointers, C strings *)

\* one call crossing the boundary: the function and the argument words
NativeCall(fn, args) == [fn |-> fn, args |-> args]

\* what one operation did: the native calls it issued, the value it returned
\* and the native addresses it dereferenced
Done(cs, val, derefs) == [calls |-> cs, val |-> val, derefs |-> derefs]

\* a raw pointer: its address and the native memory it points at
NullPtr == [addr |-> 0, mem |-> <<>>]

PtrTo(mem) == [addr |-> 1, mem |-> mem]

is_null(p) == p.addr = 0

\* bytes a native string region may hold
CBytes == {0, 97, 98}

\* native memory regions holding a C string: MaxCMem bytes and a closing NUL
\* (a NUL among the first bytes ends the string earlier)
CRegions == {m \o <<0>> : m \in [1 .. MaxCMem -> CBytes]}

\* index of the first NUL of a region
RECURSIVE FirstNul(_, _)
FirstNul(mem, i) == IF mem[i] = 0 THEN i ELSE FirstNul(mem, i + 1)

\* super::pointer_to_string: null gives the empty text, a valid pointer is
\* copied up to its NUL into an owned string
pointer_to_string(p) ==
    IF is_null(p) THEN <<>> ELSE SubSeq(p.mem, 1, FirstNul(p.mem, 1) - 1)

\* what a native string query may hand back; without a runtime there is no
\* view behind the handle and the query yields NULL
NativeStrings == IF running THEN {NullPtr} \cup {PtrTo(m) : m \in CRegions}
                 ELSE {NullPtr}

----------------------------------------------------------------------------
(* WlcViewable for WlcView *)

\* a close without the root check
close_unguarded(self) ==
    Done(<<NativeCall("wlc_view_close", <<self.f0>>)>>, "unit", {})

close(self) ==
    IF is_root(self) THEN Done(<<>>, "unit", {})
    ELSE Done(<<NativeCall("wlc_view_close", <<self.f0>>)>>, "unit", {})

\* the shared body of get_title / get_class / get_app_id
get_text(fn, self, chars) ==
    IF chars.addr = 0
    THEN Done(<<NativeCall(fn, <<self.f0>>)>>, <<>>, {})
    ELSE Done(<<NativeCall(fn, <<self.f0>>)>>, pointer_to_string(chars), {chars.addr})

\* a get_title that formats the absent title instead of returning empty text
get_title_placeholder(self, chars) ==
    IF chars.addr = 0
    THEN Done(<<NativeCall("wlc_view_get_title", <<self.f0>>)>>, <<40, 41>>, {})
    ELSE get_text("wlc_view_get_title", self, chars)

get_title(self, chars) == get_text("wlc_view_get_title", self, chars)

get_class(self, chars) == get_text("wlc_view_get_class", self, chars)

get_app_id(self, chars) == get_text("wlc_view_get_app_id", self, chars)

----------------------------------------------------------------------------
(* WlcOutput: list, and WlcOutputable for WlcOutput: get_views, set_views *)

\* native arrays of handles a sequence query may point at; the element count
\* the native side reports says how many of the words belong to the answer
NativeRegions == {<<1, 2, 0>>, <<2, 1, 1>>, <<0, 0, 0>>, <<2, 2, 1>>}

\* (pointer, *out_memb) pairs of wlc_get_outputs / wlc_output_get_views: a
\* null pointer with any count, or an array and a count within it; without a
\* runtime there is nothing to list
NativeSequences ==
    IF running
    THEN {[ptr |-> NullPtr, memb |-> n] : n \in 0 .. 2}
         \cup {[ptr |-> PtrTo(m), memb |-> n] : m \in NativeRegions, n \in 0 .. 3}
    ELSE {[ptr |-> NullPtr, memb |-> 0]}

\* the loop `for index in 0 .. out_memb { result.push(WlcOutput(*outputs.offset(index))) }`
RECURSIVE collect_outputs(_, _, _)
collect_outputs(outputs, out_memb, index) ==
    IF index >= out_memb THEN <<>>
    ELSE <<WlcOutput(outputs.mem[index + 1])>> \o collect_outputs(outputs, out_memb, index + 1)

\* the loop `for index in 0 .. out_memb { result.push(WlcView(*views.offset(index))) }`
RECURSIVE collect_views(_, _, _)
collect_views(views, out_memb, index) ==
    IF index >= out_memb THEN <<>>
    ELSE <<WlcView(views.mem[index + 1])>> \o collect_views(views, out_memb, index + 1)

\* the addresses the loop reads: ptr.offset(index), index < out_memb
offsets_read(ptr, out_memb) == {ptr.addr + index : index \in 0 .. out_memb - 1}

WlcOutput_list(native) ==
    IF is_null(native.ptr)
    THEN Done(<<NativeCall("wlc_get_outputs", <<>>)>>, <<>>, {})
    ELSE Done(<<NativeCall("wlc_get_outputs", <<>>)>>,
              collect_outputs(native.ptr, native.memb, 0),
              offsets_read(native.ptr, native.memb))

\* a get_views whose loop starts at the second element
get_views_skips_first(self, native) ==
    IF is_null(native.ptr)
    THEN Done(<<NativeCall("wlc_output_get_views", <<self.f0>>)>>, <<>>, {})
    ELSE Done(<<NativeCall("wlc_output_get_views", <<self.f0>>)>>,
              collect_views(native.ptr, native.memb, 1),
              offsets_read(native.ptr, native.memb))

get_views(self, native) ==
    IF is_null(native.ptr)
    THEN Done(<<NativeCall("wlc_output_get_views", <<self.f0>>)>>, <<>>, {})
    ELSE Done(<<NativeCall("wlc_output_get_views", <<self.f0>>)>>,
              collect_views(native.ptr, native.memb, 0),
              offsets_read(native.ptr, native.memb))

\* deprecated alias of get_views
get_mutable_views(self, native) == get_views(self, native)

Ok == [kind |-> "Ok", msg |-> ""]

Err(msg) == [kind |-> "Err", msg |-> msg]

\* what wlc_output_set_views may report; on an output with no runtime behind
\* it the call reports failure
NativeSetViewsResults == IF running THEN BOOLEAN ELSE {FALSE}

\* `views.into_iter()` on a `&mut Vec`: the elements are visited in order by
\* reference, and the vector is left to the caller as it was
Vec_into_iter(views) == [visited |-> views, vec |-> views]

\* an array of the views' values in the opposite order
view_vals_reversed(views) == [i \in 1 .. Len(views) |-> views[Len(views) + 1 - i].f0]

\* the words of the array handed to wlc_output_set_views
view_vals(views) == [i \in 1 .. Len(views) |-> views[i].f0]

\* a set_views that drops the native result
set_views_unchecked(self, views, native_ok) ==
    Done(<<NativeCall("wlc_output_set_views", <<self.f0, view_vals(views), Len(views)>>)>>,
         Ok, {})

\* a set_views that tries once more when the native call fails
set_views_retrying(self, views, native_ok) ==
    LET call == NativeCall("wlc_output_set_views", <<self.f0, view_vals(views), Len(views)>>)
    IN  IF native_ok THEN Done(<<call>>, Ok, {})
        ELSE Done(<<call, call>>, Err("Could not set views on output"), {})

set_views(self, views, native_ok) ==
    LET view_len == Len(views)
        const_views == view_vals(views)
    IN  Done(<<NativeCall("wlc_output_set_views", <<self.f0, const_views, view_len>>)>>,
             IF native_ok THEN Ok ELSE Err("Could not set views on output"),
             {})

\* the view stacks a caller hands to set_views
ViewStacks ==
    {<<>>, <<WlcView(0)>>, <<WlcView(1)>>, <<WlcView(1), WlcView(2)>>,
     <<WlcView(2), WlcView(1)>>, <<WlcView(1), WlcView(1)>>}

----------------------------------------------------------------------------
(* Machine integers.  A u32 does not fit the model checker's integers, so an *)
(* unsigned integer is its little-endian sequence of base-256 digits: a u32  *)
(* has 4 of them, a usize (64-bit target) 8.                                 *)

\* the k-digit representation of a small natural
RECURSIVE Limbs(_, _)
Limbs(n, k) == IF k = 0 THEN <<>> ELSE <<n % 256>> \o Limbs(n \div 256, k - 1)

U32(n) == Limbs(n, 4)

\* the digits without the high zeros: equal numbers have equal normal forms
RECURSIVE Norm(_)
Norm(x) == IF x = <<>> THEN <<>>
           ELSE IF x[Len(x)] = 0 THEN Norm(SubSeq(x, 1, Len(x) - 1)) ELSE x

\* digit i of x, zero beyond its length
Digit(x, i) == IF i <= Len(x) THEN x[i] ELSE 0

\* the sum of the digit products x[i] * y[j] with i + j - 1 = k, from i on
RECURSIVE Column(_, _, _, _)
Column(x, y, k, i) ==
    IF i > Len(x) \/ i > k THEN 0
    ELSE x[i] * Digit(y, k - i + 1) + Column(x, y, k, i + 1)

\* schoolbook product, digits k .. n, carrying
RECURSIVE MulFrom(_, _, _, _, _)
MulFrom(x, y, k, n, carry) ==
    IF k > n THEN <<>>
    ELSE LET t == Column(x, y, k, 1) + carry
         IN  <<t % 256>> \o MulFrom(x, y, k + 1, n, t \div 256)

\* the full product of two unsigned integers, Len(x) + Len(y) digits
MulLimbs(x, y) == MulFrom(x, y, 1, Len(x) + Len(y), 0)

\* sum of digits k .. n, carrying; n is one more than the longer operand
RECURSIVE AddFrom(_, _, _, _, _)
AddFrom(x, y, k, n, carry) ==
    IF k > n THEN <<>>
    ELSE LET t == Digit(x, k) + Digit(y, k) + carry
         IN  <<t % 256>> \o AddFrom(x, y, k + 1, n, t \div 256)

AddLimbs(x, y) ==
    AddFrom(x, y, 1, (IF Len(x) > Len(y) THEN Len(x) ELSE Len(y)) + 1, 0)

\* u32 `*`: the low 32 bits, and whether the product needed more
mul_u32(x, y) ==
    LET p == MulLimbs(x, y)
    IN  [wrapped |-> SubSeq(p, 1, 4), overflow |-> \E i \in 5 .. 8 : p[i] # 0]

\* `as usize` of a u32: zero extension
u32_as_usize(x) == x \o <<0, 0, 0, 0>>

\* usize `+` of two values below 2^33: cannot leave 64 bits
add_usize(x, y) == SubSeq(AddLimbs(x, y), 1, 8)

----------------------------------------------------------------------------
(* render.rs: read_pixels *)

\* magic response header size
header_size == 9

\* Vec::with_capacity(n): room for n elements, none of them in the vector
Vec_with_capacity(n) == [elems |-> <<>>, cap |-> n]

\* Vec::drain(start..end): panics when end is beyond the vector's length,
\* else removes and yields the elements start .. end-1
Vec_drain(v, start, end) ==
    IF end > Len(v.elems)
    THEN [panic |-> TRUE, removed |-> <<>>, rest |-> v.elems]
    ELSE [panic |-> FALSE,
          removed |-> SubSeq(v.elems, start + 1, end),
          rest |-> SubSeq(v.elems, 1, start) \o SubSeq(v.elems, end + 1, Len(v.elems))]

\* the bytes wlc_pixels_read stores at the pointer it is given: the header and
\* the w x h x 4 bytes of pixels; byte i is (fill + i) % 256, the length is
\* the mathematical 9 + w*h*4
NativeWritten(w, h, fill) ==
    [fill |-> fill, len |-> Norm(AddLimbs(Limbs(9, 1), MulLimbs(MulLimbs(w, h), U32(4))))]

\* is a < b for two unsigned integers in normal form
RECURSIVE LessFrom(_, _, _)
LessFrom(a, b, i) ==
    IF i = 0 THEN FALSE
    ELSE IF a[i] # b[i] THEN a[i] < b[i] ELSE LessFrom(a, b, i - 1)

Less(a, b) ==
    LET x == Norm(a)
        y == Norm(b)
    IN  IF Len(x) # Len(y) THEN Len(x) < Len(y) ELSE LessFrom(x, y, Len(x))

\* the outcome of read_pixels.  `overrun` is what the build makes of a native
\* write past the end of the allocation (undefined behaviour): the process
\* dies there ("crash") or goes on with a corrupted heap ("continue").
read_pixels(w, h, fill, overrun) ==
    LET wh == mul_u32(w, h)
        whx4 == mul_u32(wh.wrapped, U32(4))
        data_size == u32_as_usize(whx4.wrapped)
        out_buf == Vec_with_capacity(add_usize(Limbs(header_size, 8), data_size))
        call == NativeCall("wlc_pixels_read", <<"WLC_RGBA8888", <<w, h>>, out_buf.cap>>)
        written == NativeWritten(w, h, fill)
        response == Vec_drain(out_buf, 0, 9)
    IN  IF overflow_checks /\ (wh.overflow \/ whx4.overflow)
        THEN Done(<<>>, [status |-> "panic", why |-> "attempt to multiply with overflow",
                         cap |-> <<>>, header |-> <<>>, payload |-> <<>>], {})
        ELSE IF Less(out_buf.cap, written.len) /\ overrun = "crash"
        THEN Done(<<call>>, [status |-> "crash", why |-> "native write past the buffer",
                             cap |-> Norm(out_buf.cap), header |-> <<>>, payload |-> <<>>], {})
        ELSE IF response.panic
        THEN Done(<<call>>, [status |-> "panic", why |-> "drain end out of range",
                             cap |-> Norm(out_buf.cap), header |-> <<>>, payload |-> <<>>], {})
        ELSE Done(<<call>>, [status |-> "ok", why |-> "",
                             cap |-> Norm(out_buf.cap),
                             header |-> response.removed, payload |-> response.rest], {})

\* widths and heights of the geometries read: 0, 1, 2, 3, 2^14, 2^16, 2^32 - 1
U32Samples ==
    {U32(0), U32(1), U32(2), U32(3), <<0, 64, 0, 0>>, <<0, 0, 1, 0>>,
     <<255, 255, 255, 255>>}

----------------------------------------------------------------------------
(* render.rs: write_pixels *)

\* a Geometry value: origin and size
Geometry(x, y, w, h) == [origin |-> [x |-> x, y |-> y], size |-> [w |-> w, h |-> h]]

\* `data as *mut _ as *mut c_void`: the slice reference is a pointer and a
\* length; the cast to a thin pointer keeps the address alone
slice_as_c_void(data) == [addr |-> data.addr]

\* a write_pixels that cuts the geometry down to what the buffer holds
write_pixels_clamping(geometry, data, overrun) ==
    LET fits == ~Less(Limbs(Len(data.bytes), 4),
                      MulLimbs(MulLimbs(geometry.size.w, geometry.size.h), U32(4)))
        sent == IF fits THEN geometry
                ELSE Geometry(geometry.origin.x, geometry.origin.y, U32(0), U32(0))
    IN  Done(<<NativeCall("wlc_pixels_write",
                          <<"WLC_RGBA8888", sent, slice_as_c_void(data)>>)>>,
             [status |-> "ok"], {})

\* the outcome of write_pixels.  The native writer reads stride x height
\* bytes through the pointer; reading past a shorter buffer is undefined
\* behaviour, which `overrun` resolves as for read_pixels.
write_pixels(geometry, data, overrun) ==
    LET call == NativeCall("wlc_pixels_write",
                           <<"WLC_RGBA8888", geometry, slice_as_c_void(data)>>)
        needed == MulLimbs(MulLimbs(geometry.size.w, geometry.size.h), U32(4))
    IN  IF Less(Limbs(Len(data.bytes), 4), needed) /\ overrun = "crash"
        THEN Done(<<call>>, [status |-> "crash"], {})
        ELSE Done(<<call>>, [status |-> "ok"], {})

\* the byte buffers a caller hands to write_pixels: empty, one pixel, 2 x 2
DataBuffers ==
    {[addr |-> 2, bytes |-> <<>>],
     [addr |-> 2, bytes |-> <<10, 20, 30, 40>>],
     [addr |-> 2, bytes |-> [i \in 1 .. 16 |-> i]]}

----------------------------------------------------------------------------
(* WlcOutputable for WlcOutput: schedule_render, and the native render cycle *)

\* wlc_output_schedule_render on the native side: an idle output is scheduled
\* for the next frame, a scheduled one stays as it is, an output in the middle
\* of a render will render again right after
native_schedule_render(state) ==
    CASE state = "idle" -> "scheduled"
      [] state = "scheduled" -> "scheduled"
      [] state = "rendering" -> "rendering_again"
      [] state = "rendering_again" -> "rendering_again"

\* the effect of the native calls of one operation on the render cycles
RECURSIVE native_render_effect(_, _)
native_render_effect(s, cs) ==
    IF cs = <<>> THEN s
    ELSE LET c == Head(cs)
             t == IF c.fn = "wlc_output_schedule_render" /\ c.args[1] \in DOMAIN s
                  THEN [s EXCEPT ![c.args[1]] = native_schedule_render(s[c.args[1]])]
                  ELSE s
         IN  native_render_effect(t, Tail(cs))

\* a schedule_render that never reaches the native side
schedule_render_dropped(self) == Done(<<>>, "unit", {})

schedule_render(self) ==
    Done(<<NativeCall("wlc_output_schedule_render", <<self.f0>>)>>, "unit", {})

----------------------------------------------------------------------------
(* WlcView: output, stacking, focus, mask, geometry, type, state, parent *)

\* bit patterns of the ViewType / ViewState flag sets; no bit is the empty set
ViewFlags == {[bits |-> 0], [bits |-> 1], [bits |-> 6]}

\* visibility masks
Masks == {0, 5}

Geometries == {Geometry(0, 0, U32(0), U32(0)), Geometry(1, 2, U32(3), U32(4))}

\* what wlc_view_get_output / wlc_view_get_parent answer: any handle of a
\* running compositor; 0 for a view the native side knows nothing about
NativeHandleAnswers == IF running THEN Handles ELSE {0}

\* what wlc_view_get_type / wlc_view_get_state answer
NativeFlagAnswers == IF running THEN ViewFlags ELSE {[bits |-> 0]}

\* what wlc_view_get_geometry answers: null, or a pointer to a native geometry
NativeGeometryPointers ==
    IF running THEN {NullPtr} \cup {PtrTo(g) : g \in Geometries} ELSE {NullPtr}

\* what wlc_view_get_visible_geometry does with the slot it is handed: leave
\* it alone, or write a geometry into it
NativeSlotWrites ==
    {[written |-> FALSE, geo |-> Geometry(1, 2, U32(3), U32(4))]}
    \cup {[written |-> TRUE, geo |-> g] : g \in Geometries}

get_output(self, native) ==
    Done(<<NativeCall("wlc_view_get_output", <<self.f0>>)>>, WlcOutput(native), {})

set_output(self, output) ==
    Done(<<NativeCall("wlc_view_set_output", <<self.f0, output.f0>>)>>, "unit", {})

focus(self) ==
    Done(<<NativeCall("wlc_view_focus", <<self.f0>>)>>, "unit", {})

send_to_back(self) ==
    Done(<<NativeCall("wlc_view_send_to_back", <<self.f0>>)>>, "unit", {})

\* a send_below that hands the two views over in the wrong order
send_below_swapped(self, other) ==
    Done(<<NativeCall("wlc_view_send_below", <<other.f0, self.f0>>)>>, "unit", {})

send_below(self, other) ==
    Done(<<NativeCall("wlc_view_send_below", <<self.f0, other.f0>>)>>, "unit", {})

bring_above(self, other) ==
    Done(<<NativeCall("wlc_view_bring_above", <<self.f0, other.f0>>)>>, "unit", {})

bring_to_front(self) ==
    Done(<<NativeCall("wlc_view_bring_to_front", <<self.f0>>)>>, "unit", {})

get_mask(self, native) ==
    Done(<<NativeCall("wlc_view_get_mask", <<self.f0>>)>>, native, {})

set_mask(self, mask) ==
    Done(<<NativeCall("wlc_view_set_mask", <<self.f0, mask>>)>>, "unit", {})

None == [some |-> FALSE]
Some(x) == [some |-> TRUE, x |-> x]

\* a get_geometry that dereferences whatever the native side returned
get_geometry_unchecked(self, geometry) ==
    Done(<<NativeCall("wlc_view_get_geometry", <<self.f0>>)>>,
         Some(IF is_null(geometry) THEN Geometry(0, 0, U32(0), U32(0)) ELSE geometry.mem),
         {geometry.addr})

get_geometry(self, geometry) ==
    IF is_null(geometry)
    THEN Done(<<NativeCall("wlc_view_get_geometry", <<self.f0>>)>>, None, {})
    ELSE Done(<<NativeCall("wlc_view_get_geometry", <<self.f0>>)>>,
              Some(geometry.mem), {geometry.addr})

get_visible_geometry(self, native) ==
    LET geo == Geometry(0, 0, U32(0), U32(0))
        after == IF native.written THEN native.geo ELSE geo
    IN  Done(<<NativeCall("wlc_view_get_visible_geometry", <<self.f0, "&mut geo">>)>>,
             after, {})

\* ResizeEdge::bits
bits(flags) == flags.bits

set_geometry(self, edges, geometry) ==
    Done(<<NativeCall("wlc_view_set_geometry", <<self.f0, bits(edges), geometry>>)>>,
         "unit", {})

get_type(self, native) ==
    Done(<<NativeCall("wlc_view_get_type", <<self.f0>>)>>, native, {})

set_type(self, view_type, toggle) ==
    Done(<<NativeCall("wlc_view_set_type", <<self.f0, view_type, toggle>>)>>, "unit", {})

get_state(self, native) ==
    Done(<<NativeCall("wlc_view_get_state", <<self.f0>>)>>, native, {})

set_state(self, state, toggle) ==
    Done(<<NativeCall("wlc_view_set_state", <<self.f0, state, toggle>>)>>, "unit", {})

\* a get_parent that answers with the view itself when there is no parent
get_parent_self(self, native) ==
    Done(<<NativeCall("wlc_view_get_parent", <<self.f0>>)>>,
         IF native = 0 THEN self ELSE WlcView(native), {})

get_parent(self, native) ==
    Done(<<NativeCall("wlc_view_get_parent", <<self.f0>>)>>, WlcView(native), {})

set_parent(self, parent) ==
    Done(<<NativeCall("wlc_view_set_parent", <<self.f0, parent.f0>>)>>, "unit", {})

----------------------------------------------------------------------------
(* get_user_data / set_user_data of WlcOutput and WlcView *)

\* the values the caller owns and may attach: where each lives, its type, its
\* content
CallerValues == {[addr |-> 1, ty |-> "T", v |-> 7], [addr |-> 2, ty |-> "U", v |-> 9]}

UserDataTypes == {"T", "U"}

\* `&mut *(raw_data as *mut T)` is undefined when the pointer is null or does
\* not point at a T: the program may stop there or go on with garbage
UndefinedOutcomes == {"crash", "garbage"}

\* the native side keeps one pointer-sized cell per handle value:
\* wlc_handle_set_user_data(handle, userdata) stores into the cell of handle,
\* wlc_handle_get_user_data(handle) loads it, null when nothing was stored
native_get_user_data(cells, handle) ==
    IF handle \in DOMAIN cells THEN cells[handle] ELSE 0

RECURSIVE native_user_data_effect(_, _)
native_user_data_effect(cells, cs) ==
    IF cs = <<>> THEN cells
    ELSE LET c == Head(cs)
             t == IF c.fn = "wlc_handle_set_user_data" /\ c.args[1] \in DOMAIN cells
                  THEN [cells EXCEPT ![c.args[1]] = c.args[2].addr]
                  ELSE cells
         IN  native_user_data_effect(t, Tail(cs))

\* `data as *const _ as *const c_void`: the address stays, the type goes
ref_as_c_void(data) == [addr |-> data.addr]

\* `&mut *(raw_data as *mut T)`: a reference to whatever is at the address
deref_as(raw_data, T, undefined) ==
    IF \E d \in CallerValues : d.addr = raw_data /\ d.ty = T
    THEN [status |-> "ok", at |-> raw_data, as |-> T,
          value |-> CHOOSE d \in CallerValues : d.addr = raw_data]
    ELSE [status |-> undefined, at |-> raw_data, as |-> T]

\* a set_user_data that attaches a copy of the caller's value
set_user_data_copying(self, data) ==
    Done(<<NativeCall("wlc_handle_set_user_data",
                      <<self.f0, [addr |-> data.addr + 2]>>)>>, "unit", {})

\* a get_user_data that asks for a cell of the handle's kind
get_user_data_by_kind(self, T, cells, undefined) ==
    LET key == IF self.ty = "WlcView" THEN self.f0 ELSE self.f0 + 1
        raw_data == native_get_user_data(cells, key)
    IN  Done(<<NativeCall("wlc_handle_get_user_data", <<key>>)>>,
             deref_as(raw_data, T, undefined), {raw_data})

WlcOutput_get_user_data(self, T, cells, undefined) ==
    LET call == NativeCall("wlc_handle_get_user_data", <<self.f0>>)
        raw_data == native_get_user_data(cells, call.args[1])
    IN  Done(<<call>>, deref_as(raw_data, T, undefined), {raw_data})

WlcOutput_set_user_data(self, data) ==
    LET data_ptr == ref_as_c_void(data)
    IN  Done(<<NativeCall("wlc_handle_set_user_data", <<self.f0, data_ptr>>)>>, "unit", {})

WlcView_get_user_data(self, T, cells, undefined) ==
    LET call == NativeCall("wlc_handle_get_user_data", <<self.f0>>)
        raw_data == native_get_user_data(cells, call.args[1])
    IN  Done(<<call>>, deref_as(raw_data, T, undefined), {raw_data})

WlcView_set_user_data(self, data) ==
    LET data_ptr == ref_as_c_void(data)
    IN  Done(<<NativeCall("wlc_handle_set_user_data", <<self.f0, data_ptr>>)>>, "unit", {})

----------------------------------------------------------------------------
(* WlcOutput: focus, sleep, mask *)

\* a focus that does nothing when there is no output to focus
WlcOutput_focus_skipping(output) ==
    IF output.some
    THEN Done(<<NativeCall("wlc_output_focus", <<output.x.f0>>)>>, "unit", {})
    ELSE Done(<<>>, "unit", {})

WlcOutput_focus(output) ==
    IF output.some
    THEN Done(<<NativeCall("wlc_output_focus", <<output.x.f0>>)>>, "unit", {})
    ELSE Done(<<NativeCall("wlc_output_focus", <<0>>)>>, "unit", {})

get_sleep(self, native) ==
    Done(<<NativeCall("wlc_output_get_sleep", <<self.f0>>)>>, native, {})

set_sleep(self, sleep) ==
    Done(<<NativeCall("wlc_output_set_sleep", <<self.f0, sleep>>)>>, "unit", {})

WlcOutput_get_mask(self, native) ==
    Done(<<NativeCall("wlc_output_get_mask", <<self.f0>>)>>, native, {})

WlcOutput_set_mask(self, mask) ==
    Done(<<NativeCall("wlc_output_set_mask", <<self.f0, mask>>)>>, "unit", {})

----------------------------------------------------------------------------
(* The caller: one action per operation it may invoke *)

\* the caller invokes `name` on `self`; the operation does `r`
Invoke(name, self, native, r) ==
    /\ ops' = Append(ops, [op |-> name, self |-> self])
    /\ calls' = calls \o r.calls
    /\ ret' = [op |-> name, self |-> self, native |-> native,
               val |-> r.val, derefs |-> r.derefs, ncalls |-> Len(r.calls)]

\* what an operation cannot touch: the build, the runtime and the caller's inputs
Inputs == <<running, overflow_checks, code1, code2, geo_w, geo_h>>

Frame == UNCHANGED <<Inputs, sched, userdata>>

Close ==
    /\ Len(ops) < MaxOps
    /\ \E self \in Views : Invoke("close", self, "none", close(self))
    /\ Frame

GetTitle ==
    /\ Len(ops) < MaxOps
    /\ \E self \in Views, chars \in NativeStrings :
          Invoke("get_title", self, chars, get_title(self, chars))
    /\ Frame

GetClass ==
    /\ Len(ops) < MaxOps
    /\ \E self \in Views, chars \in NativeStrings :
          Invoke("get_class", self, chars, get_class(self, chars))
    /\ Frame

GetAppId ==
    /\ Len(ops) < MaxOps
    /\ \E self \in Views, chars \in NativeStrings :
          Invoke("get_app_id", self, chars, get_app_id(self, chars))
    /\ Frame

List ==
    /\ Len(ops) < MaxOutputOps
    /\ \E native \in NativeSequences :
          Invoke("list", "static", native, WlcOutput_list(native))
    /\ Frame

GetViews ==
    /\ Len(ops) < MaxOutputOps
    /\ \E self \in Outputs, native \in NativeSequences :
          Invoke("get_views", self, native, get_views(self, native))
    /\ Frame

GetMutableViews ==
    /\ Len(ops) < MaxOutputOps
    /\ \E self \in Outputs, native \in NativeSequences :
          Invoke("get_mutable_views", self, native, get_mutable_views(self, native))
    /\ Frame

SetViews ==
    /\ Len(ops) < MaxOutputOps
    /\ \E self \in Outputs, views \in ViewStacks, native_ok \in NativeSetViewsResults :
          Invoke("set_views", self,
                 [views |-> views, ok |-> native_ok, after |-> Vec_into_iter(views).vec],
                 set_views(self, views, native_ok))
    /\ Frame

\* a panic or a crash ends the calling thread
Stopped == ret.op \in {"read_pixels", "write_pixels"} /\ ret.val.status # "ok"

ReadPixels ==
    /\ Len(ops) < MaxOps
    /\ ~Stopped
    /\ \E fill \in {1, 250}, overrun \in {"crash", "continue"} :
          Invoke("read_pixels", "static",
                 [w |-> geo_w, h |-> geo_h, written |-> NativeWritten(geo_w, geo_h, fill)],
                 read_pixels(geo_w, geo_h, fill, overrun))
    /\ Frame

WritePixels ==
    /\ Len(ops) < MaxOps
    /\ ~Stopped
    /\ \E data \in DataBuffers, overrun \in {"crash", "continue"} :
          LET geometry == Geometry(0, 0, geo_w, geo_h) IN
          Invoke("write_pixels", "static", [geometry |-> geometry, data |-> data],
                 write_pixels(geometry, data, overrun))
    /\ Frame

ScheduleRender ==
    /\ Len(ops) < MaxRenderOps
    /\ \E self \in Outputs :
          /\ Invoke("schedule_render", self, "none", schedule_render(self))
          /\ sched' = native_render_effect(sched, schedule_render(self).calls)
    /\ UNCHANGED <<Inputs, userdata>>

\* the native event loop reaches the next frame of a scheduled output
FrameBegins ==
    /\ \E o \in Handles :
          /\ sched[o] = "scheduled"
          /\ sched' = [sched EXCEPT ![o] = "rendering"]
    /\ UNCHANGED <<Inputs, userdata, ops, calls, ret>>

\* the native render of an output finishes; one asked for meanwhile follows
FrameEnds ==
    /\ \E o \in Handles :
          /\ sched[o] \in {"rendering", "rendering_again"}
          /\ sched' = [sched EXCEPT ![o] = IF sched[o] = "rendering_again"
                                            THEN "rendering" ELSE "idle"]
    /\ UNCHANGED <<Inputs, userdata, ops, calls, ret>>

\* the view the caller works on, and the one it passes as other / parent
view == WlcView(code1)
other == WlcView(code2)

\* (edges, geometry) pairs handed to set_geometry
GeometryArgs ==
    {<<[bits |-> 0], Geometry(0, 0, U32(0), U32(0))>>,
     <<[bits |-> 1], Geometry(1, 2, U32(3), U32(4))>>}

\* (flags, toggle) pairs handed to set_type / set_state
FlagArgs == {<<[bits |-> 0], TRUE>>, <<[bits |-> 6], FALSE>>}

ViewClose ==
    /\ Len(ops) < MaxOps
    /\ Invoke("close", view, "none", close(view))
    /\ Frame

GetOutput ==
    /\ Len(ops) < MaxOps
    /\ \E native \in NativeHandleAnswers :
          Invoke("get_output", view, native, get_output(view, native))
    /\ Frame

SetOutput ==
    /\ Len(ops) < MaxOps
    /\ Invoke("set_output", view, [args |-> <<WlcOutput(code2)>>], set_output(view, WlcOutput(code2)))
    /\ Frame

ViewFocus ==
    /\ Len(ops) < MaxOps
    /\ running
    /\ Invoke("focus", view, [args |-> <<>>], focus(view))
    /\ Frame

SendToBack ==
    /\ Len(ops) < MaxOps
    /\ running
    /\ Invoke("send_to_back", view, [args |-> <<>>], send_to_back(view))
    /\ Frame

SendBelow ==
    /\ Len(ops) < MaxOps
    /\ running
    /\ Invoke("send_below", view, [args |-> <<other>>], send_below(view, other))
    /\ Frame

BringAbove ==
    /\ Len(ops) < MaxOps
    /\ running
    /\ Invoke("bring_above", view, [args |-> <<other>>], bring_above(view, other))
    /\ Frame

BringToFront ==
    /\ Len(ops) < MaxOps
    /\ running
    /\ Invoke("bring_to_front", view, [args |-> <<>>], bring_to_front(view))
    /\ Frame

GetMask ==
    /\ Len(ops) < MaxOps
    /\ \E native \in Masks :
          Invoke("get_mask", view, native, get_mask(view, native))
    /\ Frame

SetMask ==
    /\ Len(ops) < MaxOps
    /\ \E mask \in Masks :
          Invoke("set_mask", view, [args |-> <<mask>>], set_mask(view, mask))
    /\ Frame

GetGeometry ==
    /\ Len(ops) < MaxOps
    /\ \E geometry \in NativeGeometryPointers :
          Invoke("get_geometry", view, geometry, get_geometry(view, geometry))
    /\ Frame

GetVisibleGeometry ==
    /\ Len(ops) < MaxOps
    /\ \E native \in NativeSlotWrites :
          Invoke("get_visible_geometry", view, native, get_visible_geometry(view, native))
    /\ Frame

SetGeometry ==
    /\ Len(ops) < MaxOps
    /\ \E a \in GeometryArgs :
          Invoke("set_geometry", view, [args |-> a], set_geometry(view, a[1], a[2]))
    /\ Frame

GetType ==
    /\ Len(ops) < MaxOps
    /\ \E native \in NativeFlagAnswers :
          Invoke("get_type", view, native, get_type(view, native))
    /\ Frame

SetType ==
    /\ Len(ops) < MaxOps
    /\ \E a \in FlagArgs :
          Invoke("set_type", view, [args |-> a], set_type(view, a[1], a[2]))
    /\ Frame

GetState ==
    /\ Len(ops) < MaxOps
    /\ \E native \in NativeFlagAnswers :
          Invoke("get_state", view, native, get_state(view, native))
    /\ Frame

SetState ==
    /\ Len(ops) < MaxOps
    /\ \E a \in FlagArgs :
          Invoke("set_state", view, [args |-> a], set_state(view, a[1], a[2]))
    /\ Frame

GetParent ==
    /\ Len(ops) < MaxOps
    /\ \E native \in NativeHandleAnswers :
          Invoke("get_parent", view, native, get_parent(view, native))
    /\ Frame

SetParent ==
    /\ Len(ops) < MaxOps
    /\ Invoke("set_parent", view, [args |-> <<other>>], set_parent(view, other))
    /\ Frame

\* an operation whose argument the caller's history keeps
InvokeWith(name, self, arg, native, r) ==
    /\ ops' = Append(ops, [op |-> name, self |-> self, arg |-> arg])
    /\ calls' = calls \o r.calls
    /\ ret' = [op |-> name, self |-> self, native |-> native,
               val |-> r.val, derefs |-> r.derefs, ncalls |-> Len(r.calls)]

\* the program went down in an undefined get_user_data
Faulted == ret.op = "get_user_data" /\ ret.val.status = "crash"

SetUserDataOutput ==
    /\ Len(ops) < MaxUserDataOps
    /\ ~Faulted
    /\ \E self \in Outputs, data \in CallerValues :
          /\ InvokeWith("set_user_data", self, data, "none",
                        WlcOutput_set_user_data(self, data))
          /\ userdata' = native_user_data_effect(userdata,
                             WlcOutput_set_user_data(self, data).calls)
    /\ UNCHANGED <<Inputs, sched>>

SetUserDataView ==
    /\ Len(ops) < MaxUserDataOps
    /\ ~Faulted
    /\ \E self \in Views, data \in CallerValues :
          /\ InvokeWith("set_user_data", self, data, "none",
                        WlcView_set_user_data(self, data))
          /\ userdata' = native_user_data_effect(userdata,
                             WlcView_set_user_data(self, data).calls)
    /\ UNCHANGED <<Inputs, sched>>

GetUserDataOutput ==
    /\ Len(ops) < MaxUserDataOps
    /\ ~Faulted
    /\ \E self \in Outputs, T \in UserDataTypes, undefined \in UndefinedOutcomes :
          InvokeWith("get_user_data", self, T, userdata,
                     WlcOutput_get_user_data(self, T, userdata, undefined))
    /\ Frame

GetUserDataView ==
    /\ Len(ops) < MaxUserDataOps
    /\ ~Faulted
    /\ \E self \in Views, T \in UserDataTypes, undefined \in UndefinedOutcomes :
          InvokeWith("get_user_data", self, T, userdata,
                     WlcView_get_user_data(self, T, userdata, undefined))
    /\ Frame

\* the output the caller works on
output == WlcOutput(code1)

OutputFocus ==
    /\ Len(ops) < MaxOps
    /\ \E target \in {None, Some(output)} :
          InvokeWith("WlcOutput::focus", "static", target, [args |-> <<target>>],
                     WlcOutput_focus(target))
    /\ Frame

GetSleep ==
    /\ Len(ops) < MaxOps
    /\ \E native \in BOOLEAN : Invoke("get_sleep", output, native, get_sleep(output, native))
    /\ Frame

SetSleep ==
    /\ Len(ops) < MaxOps
    /\ \E sleep \in BOOLEAN :
          Invoke("set_sleep", output, [args |-> <<sleep>>], set_sleep(output, sleep))
    /\ Frame

OutputGetMask ==
    /\ Len(ops) < MaxOps
    /\ \E native \in Masks :
          Invoke("get_mask", output, native, WlcOutput_get_mask(output, native))
    /\ Frame

OutputSetMask ==
    /\ Len(ops) < MaxOps
    /\ \E mask \in Masks :
          Invoke("set_mask", output, [args |-> <<mask>>], WlcOutput_set_mask(output, mask))
    /\ Frame

----------------------------------------------------------------------------
(* Operations on handle values alone: comparison, classification, conversion *)

\* what the comparison operators of two handles of one type give
Comparison(x, y) ==
    [other |-> y,
     eq |-> derive_eq(x, y), ne |-> ~derive_eq(x, y),
     lt |-> derive_lt(x, y), gt |-> derive_gt(x, y),
     cmp |-> derive_cmp(x, y), rcmp |-> derive_cmp(y, x)]

CompareViews ==
    /\ Len(ops) < MaxOps
    /\ Invoke("cmp_views", WlcView_dummy(code1), "none",
              Done(<<>>, Comparison(WlcView_dummy(code1), WlcView_dummy(code2)), {}))
    /\ Frame

CompareOutputs ==
    /\ Len(ops) < MaxOps
    /\ Invoke("cmp_outputs", WlcOutput_dummy(code1), "none",
              Done(<<>>, Comparison(WlcOutput_dummy(code1), WlcOutput_dummy(code2)), {}))
    /\ Frame

Classify ==
    /\ Len(ops) < MaxOps
    /\ \E self \in {WlcView_dummy(code1), WlcView_root} :
          Invoke("classify", self, "none",
                 Done(<<>>, [is_root |-> is_root(self), is_window |-> is_window(self)], {}))
    /\ Frame

\* view.as_output().as_view()
ViewRoundTrip ==
    /\ Len(ops) < MaxOps
    /\ LET self == WlcView_dummy(code1) IN
          Invoke("view_roundtrip", self, "none",
                 Done(<<>>, [mid |-> as_output(self), out |-> as_view(as_output(self))], {}))
    /\ Frame

\* output.as_view().as_output()
OutputRoundTrip ==
    /\ Len(ops) < MaxOps
    /\ LET self == WlcOutput_dummy(code2) IN
          Invoke("output_roundtrip", self, "none",
                 Done(<<>>, [mid |-> as_view(self), out |-> as_output(as_view(self))], {}))
    /\ Frame

----------------------------------------------------------------------------

Zero32 == U32(0)

Init ==
    /\ running \in BOOLEAN
    /\ overflow_checks = FALSE
    /\ code1 = 0
    /\ code2 = 0
    /\ geo_w = Zero32
    /\ geo_h = Zero32
    /\ sched = [o \in Handles |-> "idle"]
    /\ userdata = [h \in Handles |-> 0]
    /\ ops = <<>>
    /\ calls = <<>>
    /\ ret = NoRet

Next == Close \/ GetTitle \/ GetClass \/ GetAppId

Spec == Init /\ [][Next]_vars

NextOutput == List \/ GetViews \/ GetMutableViews \/ SetViews

SpecOutput == Init /\ [][NextOutput]_vars

\* handle values alone: the two dummy codes are the inputs
InitPure ==
    /\ running = FALSE
    /\ overflow_checks = FALSE
    /\ code1 \in Handles
    /\ code2 \in Handles
    /\ geo_w = Zero32
    /\ geo_h = Zero32
    /\ sched = [o \in Handles |-> "idle"]
    /\ userdata = [h \in Handles |-> 0]
    /\ ops = <<>>
    /\ calls = <<>>
    /\ ret = NoRet

NextPure == CompareViews \/ CompareOutputs \/ Classify \/ ViewRoundTrip \/ OutputRoundTrip

SpecPure == InitPure /\ [][NextPure]_vars

\* pixel transfer on a live output: the geometry and the build are the inputs
InitPixels ==
    /\ running = TRUE
    /\ overflow_checks \in BOOLEAN
    /\ code1 = 0
    /\ code2 = 0
    /\ geo_w \in U32Samples
    /\ geo_h \in U32Samples
    /\ sched = [o \in Handles |-> "idle"]
    /\ userdata = [h \in Handles |-> 0]
    /\ ops = <<>>
    /\ calls = <<>>
    /\ ret = NoRet

NextPixels == ReadPixels \/ WritePixels

SpecPixels == InitPixels /\ [][NextPixels]_vars

\* the render cycle of live outputs
InitRender ==
    /\ running = TRUE
    /\ overflow_checks = FALSE
    /\ code1 = 0
    /\ code2 = 0
    /\ geo_w = Zero32
    /\ geo_h = Zero32
    /\ sched = [o \in Handles |-> "idle"]
    /\ userdata = [h \in Handles |-> 0]
    /\ ops = <<>>
    /\ calls = <<>>
    /\ ret = NoRet

NextRender == ScheduleRender \/ FrameBegins \/ FrameEnds

SpecRender == InitRender /\ [][NextRender]_vars

\* one view and one output, with or without a running compositor
InitForward ==
    /\ running \in BOOLEAN
    /\ overflow_checks = FALSE
    /\ code1 \in Handles
    /\ code2 \in Handles
    /\ geo_w = Zero32
    /\ geo_h = Zero32
    /\ sched = [o \in Handles |-> "idle"]
    /\ userdata = [h \in Handles |-> 0]
    /\ ops = <<>>
    /\ calls = <<>>
    /\ ret = NoRet

NextForward ==
    \/ ViewClose
    \/ GetOutput
    \/ SetOutput
    \/ ViewFocus
    \/ SendToBack
    \/ SendBelow
    \/ BringAbove
    \/ BringToFront
    \/ GetMask
    \/ SetMask
    \/ GetGeometry
    \/ GetVisibleGeometry
    \/ SetGeometry
    \/ GetType
    \/ SetType
    \/ GetState
    \/ SetState
    \/ GetParent
    \/ SetParent
    \/ OutputFocus
    \/ GetSleep
    \/ SetSleep
    \/ OutputGetMask
    \/ OutputSetMask

SpecForward == InitForward /\ [][NextForward]_vars

\* the queries of a view, on dummy views with no compositor behind them
InitDummy ==
    /\ running = FALSE
    /\ overflow_checks = FALSE
    /\ code1 \in Handles
    /\ code2 \in Handles
    /\ geo_w = Zero32
    /\ geo_h = Zero32
    /\ sched = [o \in Handles |-> "idle"]
    /\ userdata = [h \in Handles |-> 0]
    /\ ops = <<>>
    /\ calls = <<>>
    /\ ret = NoRet

NextDummy ==
    \/ GetTitle
    \/ GetClass
    \/ GetAppId
    \/ GetOutput
    \/ GetGeometry
    \/ GetType
    \/ GetState
    \/ GetParent

SpecDummy == InitDummy /\ [][NextDummy]_vars

\* user data of live handles
InitUserData ==
    /\ running = TRUE
    /\ overflow_checks = FALSE
    /\ code1 = 0
    /\ code2 = 0
    /\ geo_w = Zero32
    /\ geo_h = Zero32
    /\ sched = [o \in Handles |-> "idle"]
    /\ userdata = [h \in Handles |-> 0]
    /\ ops = <<>>
    /\ calls = <<>>
    /\ ret = NoRet

NextUserData ==
    \/ SetUserDataOutput
    \/ SetUserDataView
    \/ GetUserDataOutput
    \/ GetUserDataView

SpecUserData == InitUserData /\ [][NextUserData]_vars

----------------------------------------------------------------------------
(* Claims *)

NonRootCloseOps == SelectSeq(ops, LAMBDA o : o.op = "close" /\ o.self.f0 # 0)

NativeCloses == SelectSeq(calls, LAMBDA c : c.fn = "wlc_view_close")

\* C1: close() on the root view (value 0) issues no native call; on a
\* non-zero view it issues exactly one wlc_view_close carrying the view's
\* value; after any sequence of operations the native close calls are, one
\* for one and in order, the close() calls made on non-root handles.
C1_CloseSkipsRoot ==
    /\ ret.op = "close" /\ ret.self.f0 = 0 => ret.ncalls = 0
    /\ ret.op = "close" /\ ret.self.f0 # 0 =>
          /\ ret.ncalls = 1
          /\ calls[Len(calls)] = NativeCall("wlc_view_close", <<ret.self.f0>>)
    /\ Len(NativeCloses) = Len(NonRootCloseOps)
    /\ \A i \in 1 .. Len(NativeCloses) :
          NativeCloses[i].args = <<NonRootCloseOps[i].self.f0>>

\* a close of a window followed by a close of the root view
C1_Witness ==
    /\ Len(ops) = 2
    /\ ops[1].op = "close" /\ ops[1].self.f0 # 0
    /\ ret.op = "close" /\ ret.self.f0 = 0
    /\ Len(NativeCloses) = 1

\* C5: handles of one kind are equal iff their numeric values are equal and
\* are ordered as their values are; dummy(c1) compares to dummy(c2) exactly
\* as c1 compares to c2, and exactly one of <, ==, > holds.
C5_HandleOrderIsNumeric ==
    ret.op \in {"cmp_views", "cmp_outputs"} =>
        /\ ret.val.eq <=> (ret.self.f0 = ret.val.other.f0)
        /\ ret.val.eq <=> (code1 = code2)
        /\ ret.val.ne <=> (code1 # code2)
        /\ ret.val.lt <=> (code1 < code2)
        /\ ret.val.gt <=> (code1 > code2)
        /\ ret.val.cmp = "Equal" <=> ret.val.eq
        /\ ret.val.cmp = "Less" <=> ret.val.rcmp = "Greater"
        /\ ret.val.cmp = "Equal" <=> ret.val.rcmp = "Equal"
        /\ Cardinality({r \in {"lt", "eq", "gt"} : ret.val[r]}) = 1

\* dummy(0) against dummy(1)
C5_Witness ==
    /\ ret.op = "cmp_outputs"
    /\ code1 = 0 /\ code2 = 1
    /\ ret.val.lt /\ ret.val.ne

\* C6: is_root() is true iff the view's value is 0 and is_window() is its
\* negation; WlcView::root() is root and no window.
C6_RootIffZero ==
    ret.op = "classify" =>
        /\ ret.val.is_root <=> (ret.self.f0 = 0)
        /\ ret.val.is_window <=> ~ret.val.is_root
        /\ ret.self = WlcView_root => ret.val.is_root /\ ~ret.val.is_window

\* the root view classified
C6_Witness ==
    /\ ret.op = "classify"
    /\ ret.self = WlcView_root
    /\ ret.val.is_root /\ ~ret.val.is_window

\* C7: view -> output -> view and output -> view -> output give back a handle
\* equal to the original; the intermediate handle is of the other type with
\* the same numeric value, and the conversion issues no native call.
C7_ConversionRoundTrip ==
    /\ ret.op = "view_roundtrip" =>
          /\ ret.val.out.ty = "WlcView" /\ derive_eq(ret.val.out, ret.self)
          /\ ret.val.mid.ty = "WlcOutput" /\ ret.val.mid.f0 = ret.self.f0
          /\ ret.ncalls = 0 /\ calls = <<>>
    /\ ret.op = "output_roundtrip" =>
          /\ ret.val.out.ty = "WlcOutput" /\ derive_eq(ret.val.out, ret.self)
          /\ ret.val.mid.ty = "WlcView" /\ ret.val.mid.f0 = ret.self.f0
          /\ ret.ncalls = 0 /\ calls = <<>>

\* a non-root view taken through the output type and back
C7_Witness ==
    /\ ret.op = "view_roundtrip"
    /\ ret.self.f0 # 0
    /\ ret.val.out = ret.self

\* the text a native string region holds: the bytes in front of its first NUL
IsTextOf(t, mem) ==
    /\ Len(t) < Len(mem)
    /\ mem[Len(t) + 1] = 0
    /\ \A i \in 1 .. Len(t) : t[i] = mem[i] /\ t[i] # 0

\* C8: get_title, get_class and get_app_id return the empty text when the
\* native query returns a null pointer, dereferencing nothing; for a non-null
\* pointer they return exactly the text in front of the NUL it points at.
C8_NullTextIsEmpty ==
    ret.op \in {"get_title", "get_class", "get_app_id"} =>
        /\ ret.ncalls = 1
        /\ is_null(ret.native) => ret.val = <<>> /\ ret.derefs = {}
        /\ ~is_null(ret.native) => IsTextOf(ret.val, ret.native.mem)

\* a null title
C8_Witness ==
    /\ ret.op = "get_title"
    /\ is_null(ret.native)
    /\ ret.val = <<>>

\* C3: set_views on an output with no runtime behind it returns the error
\* result, whatever views are passed and however often it is called.
C3_DummySetViewsFails ==
    ~running /\ ret.op = "set_views" =>
        /\ ret.val.kind = "Err"
        /\ ret.val = Err("Could not set views on output")

\* a second set_views in a row on a dummy output, with a non-empty stack
C3_Witness ==
    /\ ~running
    /\ Len(ops) = 2
    /\ ops[1].op = "set_views" /\ ops[2].op = "set_views"
    /\ ops[1].self = ops[2].self
    /\ ret.native.views # <<>>
    /\ ret.val.kind = "Err"

\* C4: set_views returns Ok iff wlc_output_set_views reports true and the
\* error value iff it reports false, and issues that native call once.
C4_SetViewsResultFollowsNative ==
    ret.op = "set_views" =>
        /\ ret.val.kind \in {"Ok", "Err"}
        /\ ret.val = Ok <=> ret.native.ok
        /\ ret.val = Err("Could not set views on output") <=> ~ret.native.ok
        /\ ret.ncalls = 1
        /\ calls[Len(calls)].fn = "wlc_output_set_views"
        /\ calls[Len(calls)].args[1] = ret.self.f0

\* a failing set_views on a live output after a successful one
C4_Witness ==
    /\ running
    /\ Len(ops) = 2
    /\ ops[1].op = "set_views"
    /\ ret.op = "set_views" /\ ~ret.native.ok /\ ret.val.kind = "Err"
    /\ Len(calls) = 2 /\ calls[1].args[1] = ops[1].self.f0

\* C9: list and get_views give the empty sequence for a null pointer, whatever
\* count is reported; for a non-null pointer with count n they give n handles,
\* the i-th being the i-th native word.
C9_SequencesFollowNative ==
    ret.op \in {"list", "get_views"} =>
        /\ ret.ncalls = 1
        /\ is_null(ret.native.ptr) => ret.val = <<>> /\ ret.derefs = {}
        /\ ~is_null(ret.native.ptr) =>
              /\ Len(ret.val) = ret.native.memb
              /\ \A i \in 1 .. ret.native.memb :
                    /\ ret.val[i].f0 = ret.native.ptr.mem[i]
                    /\ ret.val[i].ty = IF ret.op = "list" THEN "WlcOutput" ELSE "WlcView"

\* two different views listed in native order
C9_Witness ==
    /\ ret.op = "get_views"
    /\ ~is_null(ret.native.ptr)
    /\ ret.native.memb = 2
    /\ ret.val[1].f0 = 2 /\ ret.val[2].f0 = 1

\* byte i (from 0) of what the native read wrote
WrittenByte(written, i) == (written.fill + i) % 256

\* C2: read_pixels returns without a panic, the header being the first 9
\* bytes the native read wrote and the payload the w*h*4 bytes after them.
C2_ReadPixelsSplitsBuffer ==
    ret.op = "read_pixels" =>
        /\ ret.val.status = "ok"
        /\ ret.val.header = [i \in 1 .. 9 |-> WrittenByte(ret.native.written, i - 1)]
        /\ Norm(Limbs(Len(ret.val.payload), 4)) =
              Norm(MulLimbs(MulLimbs(ret.native.w, ret.native.h), U32(4)))
        /\ \A i \in 1 .. Len(ret.val.payload) :
              ret.val.payload[i] = WrittenByte(ret.native.written, 8 + i)

\* C10: read_pixels allocates exactly 9 + w*h*4 bytes, the mathematical
\* product, for every u32 width and height, and does not abort computing it.
C10_BufferSizeIsExact ==
    ret.op = "read_pixels" =>
        /\ ret.val.why # "attempt to multiply with overflow"
        /\ ret.ncalls = 1
        /\ ret.val.cap = ret.native.written.len

\* C11 as claimed: write_pixels hands the native writer the pointer to the
\* caller's buffer and that buffer's length, with the format and the geometry
\* unchanged, in one native call.
C11_PointerAndLengthPassed ==
    ret.op = "write_pixels" =>
        /\ ret.ncalls = 1
        /\ calls[Len(calls)].fn = "wlc_pixels_write"
        /\ calls[Len(calls)].args[2] = ret.native.geometry
        /\ calls[Len(calls)].args[3].addr = ret.native.data.addr
        /\ Len(calls[Len(calls)].args) >= 4
        /\ calls[Len(calls)].args[4] = Len(ret.native.data.bytes)

\* C11 amended: write_pixels issues exactly one wlc_pixels_write whose
\* arguments are the format, the geometry as given and the address of the
\* caller's buffer, and nothing else: the buffer's length is not passed, and
\* the geometry is neither checked against the buffer nor clamped.
C11_PointerOnlyPassed ==
    ret.op = "write_pixels" =>
        /\ ret.ncalls = 1
        /\ calls[Len(calls)] =
              NativeCall("wlc_pixels_write",
                         <<"WLC_RGBA8888", ret.native.geometry,
                           [addr |-> ret.native.data.addr]>>)
        /\ ret.native.geometry.size = [w |-> geo_w, h |-> geo_h]

\* a one-pixel buffer written with a 2 x 3 geometry
C11_Witness ==
    /\ ret.op = "write_pixels"
    /\ Len(ret.native.data.bytes) = 4
    /\ geo_w = U32(2) /\ geo_h = U32(3)
    /\ calls[Len(calls)].args[2].size.h = U32(3)

\* this step is the caller's schedule_render on output o
IsScheduleRender(o) ==
    /\ Len(ops') = Len(ops) + 1
    /\ ops'[Len(ops')] = [op |-> "schedule_render", self |-> WlcOutput(o)]

\* C12: schedule_render on an output already scheduled for the next frame
\* changes nothing, so any number of calls before the frame give one redraw;
\* on an idle output it schedules the redraw; on an output in the middle of a
\* render it asks for one follow-up render, which starts as soon as the
\* current one ends and is not followed by another.
C12_ScheduleRenderIdempotent ==
    [][\A o \in Handles :
          /\ IsScheduleRender(o) /\ sched[o] = "scheduled" => sched' = sched
          /\ IsScheduleRender(o) /\ sched[o] = "idle" => sched'[o] = "scheduled"
          /\ IsScheduleRender(o) /\ sched[o] = "rendering" => sched'[o] = "rendering_again"
          /\ IsScheduleRender(o) /\ sched[o] = "rendering_again" => sched' = sched
          /\ IsScheduleRender(o) => \A p \in Handles \ {o} : sched'[p] = sched[p]
          /\ sched[o] = "rendering_again" /\ sched'[o] # sched[o] => sched'[o] = "rendering"
          /\ sched[o] = "scheduled" /\ sched'[o] # sched[o] => sched'[o] = "rendering"
    ]_vars

\* two schedule_render calls on one output before its frame
C12_Witness ==
    /\ Len(ops) = 2
    /\ ops[1] = ops[2]
    /\ ops[1].op = "schedule_render"
    /\ sched[ops[1].self.f0] = "scheduled"
    /\ Len(calls) = 2

\* C13: a query on a view the native side has no data for (a dummy view with
\* no compositor running) returns the absent value of its kind and reads no
\* native memory: no geometry, the root view as parent, output 0, empty type
\* and state flags, empty title, class and app id.
C13_DummyQueriesAbsent ==
    ~running =>
        /\ ret.op = "get_geometry" => ret.val = None
        /\ ret.op = "get_parent" => ret.val = WlcView_root /\ is_root(ret.val)
        /\ ret.op = "get_output" => ret.val = WlcOutput_dummy(0)
        /\ ret.op \in {"get_type", "get_state"} => bits(ret.val) = 0
        /\ ret.op \in {"get_title", "get_class", "get_app_id"} => ret.val = <<>>
        /\ ret.op # "none" => ret.derefs = {} /\ ret.ncalls = 1

\* a dummy view that is not the root has been asked for its parent, after
\* another query
C13_Witness ==
    /\ ~running
    /\ Len(ops) = 2
    /\ ops[1].op = "get_geometry"
    /\ ret.op = "get_parent"
    /\ ret.self = WlcView_dummy(1)
    /\ ret.val = WlcView_root

\* the set_user_data operations on handle value h before the last operation
SetsBefore(h) ==
    {i \in 1 .. Len(ops) - 1 : ops[i].op = "set_user_data" /\ ops[i].self.f0 = h}

\* the value most recently attached to handle value h
LastSet(h) == ops[CHOOSE i \in SetsBefore(h) : \A j \in SetsBefore(h) : j <= i].arg

\* C14: get_user_data on a handle, with the type of the value most recently
\* attached to that handle value by set_user_data, returns a reference to that
\* very value of the caller (its address, so no copy), whatever was attached
\* to other handle values in between; with nothing attached to that handle
\* value the native cell is still null, whatever was attached to others.
C14_GetReturnsLastSet ==
    ret.op = "get_user_data" =>
        IF SetsBefore(ret.self.f0) = {}
        THEN ret.val.at = 0
        ELSE /\ ret.val.at = LastSet(ret.self.f0).addr
             /\ ret.val.as = LastSet(ret.self.f0).ty =>
                    /\ ret.val.status = "ok"
                    /\ ret.val.value = LastSet(ret.self.f0)

\* a value attached to one handle, another to a different handle value, then
\* the first read back
C14_Witness ==
    /\ Len(ops) = 3
    /\ ops[1].op = "set_user_data"
    /\ ops[2].op = "set_user_data"
    /\ ops[1].self = ops[3].self
    /\ ops[2].self.f0 # ops[1].self.f0
    /\ ops[2].arg # ops[1].arg
    /\ ret.op = "get_user_data"
    /\ ret.val.status = "ok"
    /\ ret.val.value = ops[1].arg

\* the last operation is a get_user_data and operation i is the latest
\* set_user_data before it on the same numeric handle value
LatestSetIs(i) ==
    /\ ret.op = "get_user_data"
    /\ i \in SetsBefore(ret.self.f0)
    /\ \A j \in SetsBefore(ret.self.f0) : j <= i

\* C20: the user-data cell is keyed by the numeric handle value alone: every
\* user-data call hands the native side the bare value of the handle, and
\* what was attached through a view is what get_user_data returns through the
\* output that view converts to, and the other way round.
C20_CellKeyedByValueOnly ==
    /\ \A i \in 1 .. Len(ops) :
          ops[i].op \in {"get_user_data", "set_user_data"} =>
              /\ Len(calls) = Len(ops)
              /\ calls[i].args[1] = ops[i].self.f0
    /\ \A i \in 1 .. Len(ops) - 1 :
          /\ LatestSetIs(i) /\ ops[i].self.ty = "WlcView"
             /\ as_output(ops[i].self) = ret.self
                => ret.val.at = ops[i].arg.addr
          /\ LatestSetIs(i) /\ ops[i].self.ty = "WlcOutput"
             /\ as_view(ops[i].self) = ret.self
                => ret.val.at = ops[i].arg.addr

\* attached through a view, read back through the output it converts to
C20_Witness ==
    /\ Len(ops) = 2
    /\ ops[1].op = "set_user_data"
    /\ ops[1].self = WlcView(1)
    /\ ret.op = "get_user_data"
    /\ ret.self = as_output(WlcView(1))
    /\ ret.val.status = "ok"
    /\ ret.val.value = ops[1].arg

\* the native call that focuses output o
FocusCallFor(o) == NativeCall("wlc_output_focus", <<o.f0>>)

\* C15: WlcOutput::focus issues exactly one wlc_output_focus call: with the
\* numeric value of the output for Some(output), with 0 for None, so that
\* focus(None) reaches the native side as focusing the output of value 0 does.
C15_FocusForwardsValueOrZero ==
    ret.op = "WlcOutput::focus" =>
        /\ ret.ncalls = 1
        /\ LET target == ret.native.args[1]
               call == calls[Len(calls)]
           IN  /\ target.some => call = FocusCallFor(target.x)
               /\ ~target.some => /\ call.fn = "wlc_output_focus"
                                  /\ call.args = <<0>>
                                  /\ call = FocusCallFor(WlcOutput_dummy(0))

\* output 0 focused, then focus(None): the native side sees the same call twice
C15_Witness ==
    /\ Len(ops) = 2
    /\ ops[1].op = "WlcOutput::focus"
    /\ ops[1].arg = Some(WlcOutput_dummy(0))
    /\ ret.op = "WlcOutput::focus"
    /\ ret.native.args[1] = None
    /\ Len(calls) = 2
    /\ calls[1] = calls[2]

\* operations that only query, that only command, and all that forward
ForwardGetters ==
    {"get_output", "get_mask", "get_type", "get_state", "get_parent", "get_sleep"}

ForwardSetters ==
    {"set_output", "focus", "send_to_back", "send_below", "bring_above",
     "bring_to_front", "set_mask", "set_geometry", "set_type", "set_state",
     "set_parent", "set_sleep"}

ForwardOps ==
    ForwardGetters \cup ForwardSetters
    \cup {"get_geometry", "get_visible_geometry"}

\* the wlc function an operation of a handle of the given kind stands for
NativeName(op, kind) ==
    IF kind = "WlcView"
    THEN CASE op = "get_output" -> "wlc_view_get_output"
           [] op = "set_output" -> "wlc_view_set_output"
           [] op = "focus" -> "wlc_view_focus"
           [] op = "send_to_back" -> "wlc_view_send_to_back"
           [] op = "send_below" -> "wlc_view_send_below"
           [] op = "bring_above" -> "wlc_view_bring_above"
           [] op = "bring_to_front" -> "wlc_view_bring_to_front"
           [] op = "get_mask" -> "wlc_view_get_mask"
           [] op = "set_mask" -> "wlc_view_set_mask"
           [] op = "get_geometry" -> "wlc_view_get_geometry"
           [] op = "get_visible_geometry" -> "wlc_view_get_visible_geometry"
           [] op = "set_geometry" -> "wlc_view_set_geometry"
           [] op = "get_type" -> "wlc_view_get_type"
           [] op = "set_type" -> "wlc_view_set_type"
           [] op = "get_state" -> "wlc_view_get_state"
           [] op = "set_state" -> "wlc_view_set_state"
           [] op = "get_parent" -> "wlc_view_get_parent"
           [] op = "set_parent" -> "wlc_view_set_parent"
           [] OTHER -> "no such view operation"
    ELSE CASE op = "get_sleep" -> "wlc_output_get_sleep"
           [] op = "set_sleep" -> "wlc_output_set_sleep"
           [] op = "get_mask" -> "wlc_output_get_mask"
           [] op = "set_mask" -> "wlc_output_set_mask"
           [] OTHER -> "no such output operation"

\* the caller's arguments as the native side must see them: handles by their
\* numeric value, resize edges by their bits, everything else as given
NativeArgs(op, args) ==
    CASE op \in {"set_output", "send_below", "bring_above", "set_parent"} -> <<args[1].f0>>
      [] op = "set_geometry" -> <<args[1].bits, args[2]>>
      [] OTHER -> args

\* what a getter must return for a native answer
Reported(op, native) ==
    CASE op = "get_output" -> WlcOutput(native)
      [] op = "get_parent" -> WlcView(native)
      [] OTHER -> native

\* C16: each stacking, focus and property operation of a view or an output
\* adds exactly one native call, the wlc function of that operation with the
\* handle's numeric value first and then the caller's arguments unchanged; it
\* changes no handle and nothing else the layer holds; and a getter returns
\* what the native side answered to this call, whatever was set before.
C16_ForwardsOnceUnchanged ==
    [][ops' # ops /\ ret'.op \in ForwardOps =>
          /\ ret'.ncalls = 1
          /\ Len(calls') = Len(calls) + 1
          /\ SubSeq(calls', 1, Len(calls)) = calls
          /\ LET call == calls'[Len(calls')]
             IN  /\ call.fn = NativeName(ret'.op, ret'.self.ty)
                 /\ call.args[1] = ret'.self.f0
                 /\ ret'.op \in ForwardSetters =>
                        Tail(call.args) = NativeArgs(ret'.op, ret'.native.args)
                 /\ ret'.op \in ForwardGetters =>
                        /\ Len(call.args) = 1
                        /\ ret'.val = Reported(ret'.op, ret'.native)
          /\ UNCHANGED <<code1, code2, running, sched, userdata>>
    ]_vars

\* a mask was set on a view and the native side then reports another one
C16_Witness ==
    /\ Len(ops) = 2
    /\ ops[1] = [op |-> "set_mask", self |-> view]
    /\ calls[1] = NativeCall("wlc_view_set_mask", <<code1, 5>>)
    /\ ret.op = "get_mask"
    /\ ret.self = view
    /\ ret.val = 0
    /\ calls[2] = NativeCall("wlc_view_get_mask", <<code1>>)
    /\ code1 # 0

\* the wlc function behind an operation of the caller's history
TraceName(o) ==
    CASE o.op = "close" -> "wlc_view_close"
      [] o.op = "get_title" -> "wlc_view_get_title"
      [] o.op = "get_class" -> "wlc_view_get_class"
      [] o.op = "get_app_id" -> "wlc_view_get_app_id"
      [] o.op = "WlcOutput::focus" -> "wlc_output_focus"
      [] o.op = "list" -> "wlc_get_outputs"
      [] o.op \in {"get_views", "get_mutable_views"} -> "wlc_output_get_views"
      [] o.op = "set_views" -> "wlc_output_set_views"
      [] o.op = "schedule_render" -> "wlc_output_schedule_render"
      [] o.op = "get_user_data" -> "wlc_handle_get_user_data"
      [] o.op = "set_user_data" -> "wlc_handle_set_user_data"
      [] o.op = "read_pixels" -> "wlc_pixels_read"
      [] o.op = "write_pixels" -> "wlc_pixels_write"
      [] OTHER -> NativeName(o.op, o.self.ty)

\* the operations that reach the native side: all but close() on the root
Contributing ==
    SelectSeq(ops, LAMBDA o : ~(o.op = "close" /\ is_root(o.self)))

StaticOps == {"WlcOutput::focus", "list", "read_pixels", "write_pixels"}

\* C17: the native calls made so far are the operations invoked so far, in the
\* order of invocation, one call each and each the wlc function of its
\* operation on the operation's handle; only close() on the root view is
\* missing from the trace.
C17_TraceIsProgramOrder ==
    /\ Len(calls) = Len(Contributing)
    /\ \A i \in 1 .. Len(Contributing) :
          /\ calls[i].fn = TraceName(Contributing[i])
          /\ Contributing[i].op \notin StaticOps =>
                 calls[i].args[1] = Contributing[i].self.f0

\* C18: get_geometry returns none exactly when wlc_view_get_geometry returned
\* a null pointer, and otherwise the geometry behind the pointer;
\* get_visible_geometry always returns a geometry: the zero rectangle when the
\* native call wrote nothing into the slot, what it wrote otherwise.
C18_GeometryAbsentOrZero ==
    /\ ret.op = "get_geometry" =>
          /\ ret.val = None <=> is_null(ret.native)
          /\ is_null(ret.native) => ret.derefs = {}
          /\ ~is_null(ret.native) =>
                 ret.val = Some(ret.native.mem) /\ ret.derefs = {ret.native.addr}
    /\ ret.op = "get_visible_geometry" =>
          /\ ~ret.native.written =>
                 /\ ret.val.origin = [x |-> 0, y |-> 0]
                 /\ Norm(ret.val.size.w) = <<>>
                 /\ Norm(ret.val.size.h) = <<>>
          /\ ret.native.written => ret.val = ret.native.geo

\* a view with a geometry was asked for it, and then for its visible geometry,
\* which the native side left unwritten
C18_Witness ==
    /\ Len(ops) = 2
    /\ ops[1].op = "get_geometry"
    /\ calls[1].fn = "wlc_view_get_geometry"
    /\ ret.op = "get_visible_geometry"
    /\ ~ret.native.written
    /\ ret.val = Geometry(0, 0, U32(0), U32(0))

\* C19: set_views hands wlc_output_set_views, in one call, a count equal to
\* the length of the caller's sequence and an array whose i-th word is the
\* numeric value of the i-th view, duplicates and the root view included; the
\* caller's sequence is the same after the call, whether it succeeded or not.
C19_SetViewsPassesValuesInOrder ==
    ret.op = "set_views" =>
        /\ ret.ncalls = 1
        /\ LET call == calls[Len(calls)]
               views == ret.native.views
           IN  /\ call.fn = "wlc_output_set_views"
               /\ call.args[3] = Len(views)
               /\ Len(call.args[2]) = Len(views)
               /\ \A i \in 1 .. Len(views) : call.args[2][i] = views[i].f0
               /\ views = <<>> => call.args[3] = 0 /\ call.args[2] = <<>>
               /\ ret.native.after = views

\* two different views in descending order were handed over and the native
\* side refused them
C19_Witness ==
    /\ running
    /\ ret.op = "set_views"
    /\ ret.native.views = <<WlcView(2), WlcView(1)>>
    /\ ~ret.native.ok
    /\ ret.val.kind = "Err"
    /\ calls[Len(calls)].args[2] = <<2, 1>>
    /\ calls[Len(calls)].args[3] = 2
====
